---- MODULE Spec2Model ----
(***************************************************************************)
(* Verification model of the perceptor scan-orchestration engine:          *)
(*   - HubManager (pkg/core/hubmanager.go): the url -> hub client map,    *)
(*     SetHubs with its detached creation goroutine, create, and the       *)
(*     per-url routing of StartScanClient / FinishScanClient.              *)
(*   - Hub (pkg/hub/hub.go): status, error list, data timers, didLogin,    *)
(*     publish / Updates, Stop.                                            *)
(*   - Perceptor coordinator and the central model it wires.               *)
(***************************************************************************)
EXTENDS Integers, Sequences, FiniteSets, TLC

(***************************************************************************)
(* Bounds of the model.                                                    *)
(***************************************************************************)
MaxCalls == 2

(***************************************************************************)
(* HubManager                                                              *)
(***************************************************************************)
URLs == {"h1", "h2", "h3"}

ScanNames == {"s1"}

\* the hub lists that callers hand to SetHubs
HubLists == {{}, {"h1"}, {"h1", "h2"}, {"h2", "h3"}}

\* the absence of a key in hm.hubs
NoHub == 0

\* A hub client instance is named by the url it was built for and the
\* SetHubs call whose creation goroutine built it.
Instances == URLs \X (1..MaxCalls)

VARIABLES
    hubs,        \* hm.hubs: url -> creating call of the stored instance, or NoHub
    calls,       \* the arguments of the SetHubs calls made so far, in order
    hmPc,        \* position of the goroutine calling SetHubs: "idle" | "remove"
    toVisit,     \* keys the removal loop of the running SetHubs has yet to delete
    creators,    \* per SetHubs call, its creation goroutine: hubsToCreate left, url in create
    created,     \* every hub client instance hub.NewClient has returned
    stopCount,   \* per instance, the number of Stop() calls it received
    crashed,     \* the runtime aborted the process (concurrent map access)
    lastCall     \* the latest StartScanClient / FinishScanClient call and its outcome

hmVars == <<hubs, calls, hmPc, toVisit, creators, created, stopCount, crashed, lastCall>>

VARIABLES
    status,      \* hub.status: "Down" | "Up"
    errors,      \* hub.errors; an error is named by its rank among the errors recorded
    errSeq,      \* number of non-nil errors handed to recordError so far
    errLens,     \* len(hub.errors) at each return of recordError in the latest action
    timers,      \* per timer, "paused" | "running"
    lastLogin    \* error handed to the latest didLogin action: "none" | "nil" | "err"

hubVars == <<status, errors, errSeq, errLens, timers, lastLogin>>

VARIABLES
    stopped,         \* hub.stop is closed
    actorPc,         \* action-processing goroutine: "select" | "publish" | "exited"
    events,          \* the action names handed to recordEvent, in order
    published,       \* the updates handed to publish, in order; update n is the n-th
    pending,         \* updates whose publish goroutine is at its select
    reading,         \* per subscriber, whether it receives from Updates()
    received,        \* per subscriber, the updates it received, in order
    joinedAt,        \* per subscriber, the number of updates published when it began to read
    deliveredAtJoin  \* per subscriber, the updates already received by a reader when it began

pubVars == <<stopped, actorPc, events, published, pending, reading, received,
             joinedAt, deliveredAtJoin>>

VARIABLES
    imageInfos,  \* per image sha, the scan status of its ImageInfo, or "absent"
    scanQueue,   \* the queue of unscanned images
    pods,        \* the names of the pods of the model
    continued,   \* what the latest continuation was invoked with: "none" | "nil" | a sha
    lastAction,  \* the name of the latest action the reducer applied
    completed,   \* history: the images whose ImageInfo has reached COMPLETE
    overdue      \* the images held in their scan status for more than stalledScanTimeout

coreVars == <<imageInfos, scanQueue, pods, continued, lastAction, completed,
              overdue>>

VARIABLES
    loginPc,     \* login timer worker: "waiting" | "sending" | "exited"
    loginErr,    \* whether the login of the running login task failed
    modelPc,     \* caller of Model(): "idle" | "sending" | "awaiting"
    snapshot,    \* the latest *api.ModelHub a Model() caller received, or NoSnapshot
    inFlight,    \* the actions received from hub.actions whose body has not returned
    applied      \* the actions whose body has returned, in order of return

loopVars == <<loginPc, loginErr, modelPc, snapshot, inFlight, applied>>

VARIABLES
    cbState,     \* circuit breaker of one hub: "closed" | "open" | "halfOpen"
    cbDelay,     \* its reopen delay, in seconds
    cbFailures,  \* history: failed calls since the latest success or Reset
    cbCalls,     \* history: number of calls whose outcome has been recorded
    cbLast       \* history: the latest operation on the breaker

cbVars == <<cbState, cbDelay, cbFailures, cbCalls, cbLast>>

VARIABLES
    hubScansField,   \* perceptor.inProgressHubScans, as "close the circle" last wrote it
    hubPollRequest,  \* a getNextImageForHubPolling action is in the reducer's hands
    wg,              \* counter of the WaitGroup of the running iteration
    assignPc,        \* image-assignment loop: "send" | "wait" | "fetch" | "fetched" | "sleep"
    assignImage,     \* the image its continuation captured: "nil" or a sha
    assignScan,      \* result of its fetch: "none" | "err" | "nil" | a scan status
    iter,            \* history of the running iteration: actions sent, continuation calls
    pollPc,          \* completion-polling loop: "sleep" | "loop" | "fetched"
    pollTodo,        \* the images of the running pass not yet visited
    pollScan,        \* result of its latest fetch
    passList,        \* history: the images the running pass ranges over
    pollSent,        \* history: the shas of the hubScanResults actions of the pass
    pollErrs         \* history: the images of the pass whose fetch returned an error

coVars == <<hubScansField, hubPollRequest, wg, assignPc, assignImage, assignScan,
            iter, pollPc, pollTodo, pollScan, passList, pollSent, pollErrs>>

vars == <<hmVars, hubVars, pubVars, coreVars, loopVars, cbVars, coVars>>


NoCall == [op |-> "none", url |-> "none", name |-> "none", target |-> NoHub, ret |-> "none"]

NoCreator == [todo |-> {}, cur |-> "none"]

NewHubManager ==
    /\ hubs = [u \in URLs |-> NoHub]
    /\ calls = <<>>
    /\ hmPc = "idle"
    /\ toVisit = {}
    /\ creators = [k \in 1..MaxCalls |-> NoCreator]
    /\ created = {}
    /\ stopCount = [i \in Instances |-> 0]
    /\ crashed = FALSE
    /\ lastCall = NoCall

\* the keys of hm.hubs
HubKeys == {u \in URLs : hubs[u] # NoHub}

\* newHubURLs of the SetHubs call that is running or ran last
newHubURLs == IF calls = <<>> THEN {} ELSE calls[Len(calls)]

\* hubsToCreate of SetHubs: the new urls that are not keys of hm.hubs
hubsToCreate(hubURLs) == {u \in hubURLs : hubs[u] = NoHub}

\* SetHubs up to the start of the removal loop: builds newHubURLs and
\* hubsToCreate from the map as it is now and spawns the creation goroutine.
SetHubs(hubURLs) ==
    /\ ~crashed
    /\ hmPc = "idle"
    /\ Len(calls) < MaxCalls
    /\ calls' = Append(calls, hubURLs)
    /\ creators' = [creators EXCEPT ![Len(calls) + 1] =
                        [todo |-> hubsToCreate(hubURLs), cur |-> "none"]]
    /\ toVisit' = {u \in HubKeys : u \notin hubURLs}
    /\ hmPc' = "remove"
    /\ UNCHANGED <<hubs, created, stopCount, crashed, lastCall>>
    /\ UNCHANGED <<hubVars, pubVars, coreVars, loopVars, cbVars, coVars>>

\* One iteration of the removal loop that deletes: hub.Stop() and
\* delete(hm.hubs, hubURL).  A key that a creation goroutine inserted after
\* the loop began may be produced by the range or skipped.
SetHubsRemove(u) ==
    /\ ~crashed
    /\ hmPc = "remove"
    /\ hubs[u] # NoHub
    /\ u \notin newHubURLs
    /\ stopCount' = [stopCount EXCEPT ![<<u, hubs[u]>>] = @ + 1]
    /\ hubs' = [hubs EXCEPT ![u] = NoHub]
    /\ toVisit' = toVisit \ {u}
    /\ UNCHANGED <<calls, hmPc, creators, created, crashed, lastCall>>
    /\ UNCHANGED <<hubVars, pubVars, coreVars, loopVars, cbVars, coVars>>

\* The removal loop is over and SetHubs returns.
SetHubsReturn ==
    /\ ~crashed
    /\ hmPc = "remove"
    /\ toVisit = {}
    /\ hmPc' = "idle"
    /\ UNCHANGED <<hubs, calls, toVisit, creators, created, stopCount, crashed, lastCall>>
    /\ UNCHANGED <<hubVars, pubVars, coreVars, loopVars, cbVars, coVars>>

\* create, first half: the existence test.  An existing key makes create
\* return the "already exists" error, which the goroutine logs.
createCheck(k, u) ==
    /\ ~crashed
    /\ creators[k].cur = "none"
    /\ u \in creators[k].todo
    /\ creators' = [creators EXCEPT ![k] =
                        IF hubs[u] # NoHub
                        THEN [todo |-> @.todo \ {u}, cur |-> "none"]
                        ELSE [todo |-> @.todo, cur |-> u]]
    /\ UNCHANGED <<hubs, calls, hmPc, toVisit, created, stopCount, crashed, lastCall>>
    /\ UNCHANGED <<hubVars, pubVars, coreVars, loopVars, cbVars, coVars>>

\* create, second half: hub.NewClient and the store into hm.hubs.
createStore(k) ==
    /\ ~crashed
    /\ creators[k].cur # "none"
    /\ LET u == creators[k].cur
       IN /\ hubs' = [hubs EXCEPT ![u] = k]
          /\ created' = created \cup {<<u, k>>}
          /\ creators' = [creators EXCEPT ![k] =
                              [todo |-> @.todo \ {u}, cur |-> "none"]]
    /\ UNCHANGED <<calls, hmPc, toVisit, stopCount, crashed, lastCall>>
    /\ UNCHANGED <<hubVars, pubVars, coreVars, loopVars, cbVars, coVars>>

\* creation goroutines that still have a map access ahead of them
ActiveCreators == {k \in 1..MaxCalls : creators[k].todo # {}}

\* creation goroutines about to write hm.hubs
StoringCreators == {k \in 1..MaxCalls : creators[k].cur # "none"}

\* The map is a plain Go map with no lock.  A store of a creation goroutine
\* that overlaps an access of another goroutine (the removal loop, a lookup
\* by SetHubs, StartScanClient or FinishScanClient, another creator), or a
\* delete of the removal loop that overlaps the existence test of a creator,
\* is a data race; the runtime may detect it and abort with a fatal error,
\* or the accesses take effect one after the other.
MapRace ==
    \/ StoringCreators # {}
    \/ ActiveCreators # {} /\ hmPc = "remove" /\ toVisit # {}

ConcurrentMapAccess ==
    /\ ~crashed
    /\ MapRace
    /\ crashed' = TRUE
    /\ UNCHANGED <<hubs, calls, hmPc, toVisit, creators, created, stopCount, lastCall>>
    /\ UNCHANGED <<hubVars, pubVars, coreVars, loopVars, cbVars, coVars>>

\* routeScanClient with the lookup result ignored: an unknown url is answered
\* with nil and the call goes to the hub of the first SetHubs call.
routeScanClientUnchecked(op, hubURL, scanName) ==
    [op |-> op, url |-> hubURL, name |-> scanName, target |-> 1, ret |-> "nil"]

\* the lookup shared by StartScanClient and FinishScanClient
routeScanClient(op, hubURL, scanName) ==
    IF hubs[hubURL] = NoHub
    THEN [op |-> op, url |-> hubURL, name |-> scanName, target |-> NoHub, ret |-> "notfound"]
    ELSE [op |-> op, url |-> hubURL, name |-> scanName, target |-> hubs[hubURL], ret |-> "nil"]

StartScanClient(hubURL, scanName) ==
    /\ ~crashed
    /\ lastCall' = routeScanClient("StartScanClient", hubURL, scanName)
    /\ UNCHANGED <<hubs, calls, hmPc, toVisit, creators, created, stopCount, crashed>>
    /\ UNCHANGED <<hubVars, pubVars, coreVars, loopVars, cbVars, coVars>>

FinishScanClient(hubURL, scanName) ==
    /\ ~crashed
    /\ lastCall' = routeScanClient("FinishScanClient", hubURL, scanName)
    /\ UNCHANGED <<hubs, calls, hmPc, toVisit, creators, created, stopCount, crashed>>
    /\ UNCHANGED <<hubVars, pubVars, coreVars, loopVars, cbVars, coVars>>

(***************************************************************************)
(* Hub: status, error list and timers                                      *)
(***************************************************************************)
MaxRecorded == 1510

\* the nil error
Nil == 0

\* len(hub.errors) above which recordError cuts the list
MaxErrors == 1000

\* number of oldest entries recordError cuts off: hub.errors[500:]
DroppedErrors == 500

DataTimers == <<"checkScansForCompletionTimer", "fetchScansTimer",
                "fetchAllScansTimer", "refreshScansTimer">>

RunningTimers == {"getMetricsTimer", "loginTimer"}

TimerNames == RunningTimers \cup {DataTimers[i] : i \in 1..Len(DataTimers)}


NewHub ==
    /\ status = "Down"
    /\ errors = <<>>
    /\ errSeq = 0
    /\ errLens = <<>>
    /\ timers = [t \in TimerNames |-> IF t \in RunningTimers THEN "running" ELSE "paused"]
    /\ lastLogin = "none"

\* recordError with the length test ahead of the append
recordErrorCutFirst(errs, err) ==
    LET cut == IF Len(errs) > MaxErrors
               THEN SubSeq(errs, DroppedErrors + 1, Len(errs))
               ELSE errs
    IN IF err # Nil THEN Append(cut, err) ELSE cut

recordError(errs, err) ==
    LET appended == IF err # Nil THEN Append(errs, err) ELSE errs
    IN IF Len(appended) > MaxErrors
       THEN SubSeq(appended, DroppedErrors + 1, Len(appended))
       ELSE appended

\* Timer.Pause: an error when the timer is already paused
Pause(tm, t) ==
    IF tm[t] = "paused"
    THEN [timers |-> tm, err |-> TRUE]
    ELSE [timers |-> [tm EXCEPT ![t] = "paused"], err |-> FALSE]

\* Timer.Resume(true): an error when the timer is already running
Resume(tm, t) ==
    IF tm[t] = "running"
    THEN [timers |-> tm, err |-> TRUE]
    ELSE [timers |-> [tm EXCEPT ![t] = "running"], err |-> FALSE]

\* hub.recordError(err) with the nil test left out: nil is appended too
recordWithoutNilTest(h, failed) ==
    LET e == IF failed THEN h.errSeq + 1 ELSE Nil
        appended == Append(h.errors, e)
        errs == IF Len(appended) > MaxErrors
                THEN SubSeq(appended, DroppedErrors + 1, Len(appended))
                ELSE appended
    IN [h EXCEPT !.errors = errs,
                 !.errSeq = IF failed THEN @ + 1 ELSE @,
                 !.errLens = Append(@, Len(errs))]

\* hub.recordError(err) on the hub fields h, err being nil or a fresh error
record(h, failed) ==
    LET e == IF failed THEN h.errSeq + 1 ELSE Nil
        errs == recordError(h.errors, e)
    IN [h EXCEPT !.errors = errs,
                 !.errSeq = IF failed THEN @ + 1 ELSE @,
                 !.errLens = Append(@, Len(errs))]

\* hub.recordError(timer.Pause()) or hub.recordError(timer.Resume(true))
recordTimerOp(h, op, t) ==
    LET r == IF op = "pause" THEN Pause(h.timers, t) ELSE Resume(h.timers, t)
    IN record([h EXCEPT !.timers = r.timers], r.err)

\* the timer operations applied to the login and getMetrics timers as well
recordTimerOpsOnEveryTimer(h, op, i) ==
    LET g1 == recordTimerOp(h, op, "loginTimer")
        g2 == recordTimerOp(g1, op, "getMetricsTimer")
        d1 == recordTimerOp(g2, op, DataTimers[1])
        d2 == recordTimerOp(d1, op, DataTimers[2])
        d3 == recordTimerOp(d2, op, DataTimers[3])
    IN recordTimerOp(d3, op, DataTimers[4])

\* the four data timers paused or resumed in the order of the source
RECURSIVE recordTimerOps(_, _, _)
recordTimerOps(h, op, i) ==
    IF i > Len(DataTimers) THEN h
    ELSE recordTimerOps(recordTimerOp(h, op, DataTimers[i]), op, i + 1)

\* didLogin that pauses and resumes only the first three data timers
didLoginBodySkipsRefresh(h, failed) ==
    LET h1 == record([h EXCEPT !.errLens = <<>>], failed)
        ops(g, op) == recordTimerOp(recordTimerOp(recordTimerOp(g, op,
                          DataTimers[1]), op, DataTimers[2]), op, DataTimers[3])
    IN IF failed /\ h1.status = "Up"
       THEN ops([h1 EXCEPT !.status = "Down"], "pause")
       ELSE IF ~failed /\ h1.status = "Down"
       THEN ops([h1 EXCEPT !.status = "Up"], "resume")
       ELSE h1

\* the body of the didLogin action on the hub fields h
didLoginBody(h, failed) ==
    LET h1 == record([h EXCEPT !.errLens = <<>>], failed)
    IN IF failed /\ h1.status = "Up"
       THEN recordTimerOps([h1 EXCEPT !.status = "Down"], "pause", 1)
       ELSE IF ~failed /\ h1.status = "Down"
       THEN recordTimerOps([h1 EXCEPT !.status = "Up"], "resume", 1)
       ELSE h1

HubFields ==
    [status |-> status, errors |-> errors, errSeq |-> errSeq,
     errLens |-> errLens, timers |-> timers]

\* the didLogin action as the action loop applies it
didLogin(failed) ==
    LET h == didLoginBody(HubFields, failed)
    IN /\ status' = h.status
       /\ errors' = h.errors
       /\ errSeq' = h.errSeq
       /\ errLens' = h.errLens
       /\ timers' = h.timers
       /\ lastLogin' = IF failed THEN "err" ELSE "nil"

\* a login that failed, its didLogin action applied
LoginFailed ==
    /\ errSeq < MaxRecorded
    /\ didLogin(TRUE)
    /\ UNCHANGED <<hmVars, pubVars, coreVars, loopVars, cbVars, coVars>>

\* a login that succeeded, its didLogin action applied
LoginSucceeded ==
    /\ errSeq < MaxRecorded
    /\ didLogin(FALSE)
    /\ UNCHANGED <<hmVars, pubVars, coreVars, loopVars, cbVars, coVars>>

(***************************************************************************)
(* Hub: action loop, publish / Updates, Stop                               *)
(***************************************************************************)
MaxUpdates == 2

MaxActions == 3

\* calls issued through the circuit breaker of one hub
MaxBreakerCalls == 12

\* the goroutines reading from hub.Updates()
Subscribers == {"r1", "r2"}


NewHubLoop ==
    /\ stopped = FALSE
    /\ actorPc = "select"
    /\ events = <<>>
    /\ published = <<>>
    /\ pending = {}
    /\ reading = [s \in Subscribers |-> FALSE]
    /\ received = [s \in Subscribers |-> <<>>]
    /\ joinedAt = [s \in Subscribers |-> 0]
    /\ deliveredAtJoin = [s \in Subscribers |-> {}]

\* the updates some reader has received
Delivered == UNION {{received[s][i] : i \in 1..Len(received[s])} : s \in Subscribers}

\* publish with the send made on the calling goroutine
publishInline(update) ==
    [pending |-> pending \cup {update}, actorPc |-> "publish"]

\* publish: the send is left to a goroutine of its own and the caller goes on
publish(update) ==
    [pending |-> pending \cup {update}, actorPc |-> "select"]

\* the action loop receives an action that publishes an update and applies it
ActorPublish ==
    /\ actorPc = "select"
    /\ Len(events) < MaxActions
    /\ Len(published) < MaxUpdates
    /\ LET update == Len(published) + 1
       IN /\ published' = Append(published, update)
          /\ pending' = publish(update).pending
          /\ actorPc' = publish(update).actorPc
    /\ events' = Append(events, "publish")
    /\ UNCHANGED <<stopped, reading, received, joinedAt, deliveredAtJoin>>
    /\ UNCHANGED <<hmVars, hubVars, coreVars, loopVars, cbVars, coVars>>

\* the action loop receives a didLogin action and applies it
ActorDidLogin(failed) ==
    /\ actorPc = "select"
    /\ Len(events) < MaxActions
    /\ events' = Append(events, "didLogin")
    /\ didLogin(failed)
    /\ UNCHANGED <<stopped, actorPc, published, pending, reading, received,
                   joinedAt, deliveredAtJoin>>
    /\ UNCHANGED <<hmVars, coreVars, loopVars, cbVars, coVars>>

\* the action loop takes the stop case of its select and returns
ActorExit ==
    /\ actorPc = "select"
    /\ stopped
    /\ actorPc' = "exited"
    /\ UNCHANGED <<stopped, events, published, pending, reading, received,
                   joinedAt, deliveredAtJoin>>
    /\ UNCHANGED <<hmVars, hubVars, coreVars, loopVars, cbVars, coVars>>

\* Stop: close(hub.stop)
Stop ==
    /\ ~stopped
    /\ stopped' = TRUE
    /\ UNCHANGED <<actorPc, events, published, pending, reading, received,
                   joinedAt, deliveredAtJoin>>
    /\ UNCHANGED <<hmVars, hubVars, coreVars, loopVars, cbVars, coVars>>

\* a subscriber begins to receive from the channel Updates() returned
StartReading(s) ==
    /\ ~reading[s]
    /\ reading' = [reading EXCEPT ![s] = TRUE]
    /\ joinedAt' = [joinedAt EXCEPT ![s] = Len(published)]
    /\ deliveredAtJoin' = [deliveredAtJoin EXCEPT ![s] = Delivered]
    /\ UNCHANGED <<stopped, actorPc, events, published, pending, received>>
    /\ UNCHANGED <<hmVars, hubVars, coreVars, loopVars, cbVars, coVars>>

\* a send that hands the value to every goroutine receiving from the channel
sendToAll(update, s) ==
    [t \in Subscribers |-> IF reading[t] THEN Append(received[t], update) ELSE received[t]]

\* a send on the unbuffered publishUpdatesCh: one receiver takes the value
send(update, s) ==
    [received EXCEPT ![s] = Append(@, update)]

\* a publish goroutine that sends its update again after a completed send
afterSendRepeats(update) == pending

\* the publish goroutine ends once its select has completed
afterSend(update) == pending \ {update}

\* the send case of a publish goroutine's select meets a receiving subscriber
Deliver(update, s) ==
    /\ update \in pending
    /\ reading[s]
    /\ received' = send(update, s)
    /\ pending' = afterSend(update)
    /\ actorPc' = IF actorPc = "publish" THEN "select" ELSE actorPc
    /\ UNCHANGED <<stopped, events, published, reading, joinedAt, deliveredAtJoin>>
    /\ UNCHANGED <<hmVars, hubVars, coreVars, loopVars, cbVars, coVars>>

\* the stop case of a publish goroutine's select
PublishExit(update) ==
    /\ update \in pending
    /\ stopped
    /\ pending' = pending \ {update}
    /\ actorPc' = IF actorPc = "publish" THEN "select" ELSE actorPc
    /\ UNCHANGED <<stopped, events, published, reading, received, joinedAt, deliveredAtJoin>>
    /\ UNCHANGED <<hmVars, hubVars, coreVars, loopVars, cbVars, coVars>>

ActorStep ==
    \/ ActorPublish
    \/ ActorDidLogin(TRUE)
    \/ ActorDidLogin(FALSE)

(***************************************************************************)
(* Hub: the actions channel, its senders and the action loop               *)
(***************************************************************************)

NoSnapshot == [status |-> "none", errors |-> <<>>, seen |-> 0]

NewHubActions ==
    /\ loginPc = "waiting"
    /\ loginErr = FALSE
    /\ modelPc = "idle"
    /\ snapshot = NoSnapshot
    /\ inFlight = <<>>
    /\ applied = <<>>

\* a sequence without its i-th element
RemoveAt(seq, i) == SubSeq(seq, 1, i - 1) \o SubSeq(seq, i + 1, Len(seq))

\* a loop that hands each received action to a goroutine of its own
loopAfterReceiveDetached == "select"

\* the loop runs action.apply() itself: it is busy until the body returns
loopAfterReceive == "apply"

\* the error of action.apply() is logged and counted; the loop goes on
loopAfterApply(failed) == "select"

\* position of the loop once the body of an action in flight has returned
loopPcAfterBody(failed) ==
    IF actorPc = "apply" THEN loopAfterApply(failed) ELSE actorPc

\* apiModel: the error strings are built from hub.errors but the returned
\* model gets only Status (and the circuit breaker model) set; seen counts
\* the actions applied before the snapshot was taken.
apiModel == [status |-> status, errors |-> <<>>, seen |-> Len(applied)]

\* the login timer fires: the task calls hub.client.login() and then
\* didLogin(err), which sends on hub.actions
LoginTimerFire(failed) ==
    /\ loginPc = "waiting"
    /\ ~stopped
    /\ Len(events) < MaxActions
    /\ loginPc' = "sending"
    /\ loginErr' = failed
    /\ UNCHANGED <<modelPc, snapshot, inFlight, applied>>
    /\ UNCHANGED <<hmVars, hubVars, pubVars, coreVars, cbVars, coVars>>

\* the login timer worker sees the closed stop channel between two tasks
LoginTimerExit ==
    /\ loginPc = "waiting"
    /\ stopped
    /\ loginPc' = "exited"
    /\ UNCHANGED <<loginErr, modelPc, snapshot, inFlight, applied>>
    /\ UNCHANGED <<hmVars, hubVars, pubVars, coreVars, cbVars, coVars>>

\* Model(): the caller sends the getModel action on hub.actions
ModelCall ==
    /\ modelPc = "idle"
    /\ Len(events) < MaxActions
    /\ modelPc' = "sending"
    /\ UNCHANGED <<loginPc, loginErr, snapshot, inFlight, applied>>
    /\ UNCHANGED <<hmVars, hubVars, pubVars, coreVars, cbVars, coVars>>

\* the action case of the loop's select, the login task being the sender
LoopReceiveDidLogin ==
    /\ actorPc = "select"
    /\ loginPc = "sending"
    /\ events' = Append(events, "didLogin")
    /\ inFlight' = Append(inFlight, [name |-> "didLogin", failed |-> loginErr, reply |-> NoSnapshot])
    /\ actorPc' = loopAfterReceive
    /\ loginPc' = "waiting"
    /\ UNCHANGED <<loginErr, modelPc, snapshot, applied>>
    /\ UNCHANGED <<stopped, published, pending, reading, received, joinedAt, deliveredAtJoin>>
    /\ UNCHANGED <<hmVars, hubVars, coreVars, cbVars, coVars>>

\* the action case of the loop's select, a Model() caller being the sender;
\* Model() returns the reply channel to its caller
LoopReceiveGetModel ==
    /\ actorPc = "select"
    /\ modelPc = "sending"
    /\ events' = Append(events, "getModel")
    /\ inFlight' = Append(inFlight, [name |-> "getModel", failed |-> FALSE, reply |-> NoSnapshot])
    /\ actorPc' = loopAfterReceive
    /\ modelPc' = "awaiting"
    /\ UNCHANGED <<loginPc, loginErr, snapshot, applied>>
    /\ UNCHANGED <<stopped, published, pending, reading, received, joinedAt, deliveredAtJoin>>
    /\ UNCHANGED <<hmVars, hubVars, coreVars, cbVars, coVars>>

\* the action case of the loop's select for an action of another sender,
\* whose body returns nil or an error
LoopReceiveOther(failed) ==
    /\ actorPc = "select"
    /\ Len(events) < MaxActions
    /\ events' = Append(events, "other")
    /\ inFlight' = Append(inFlight, [name |-> "other", failed |-> failed, reply |-> NoSnapshot])
    /\ actorPc' = loopAfterReceive
    /\ UNCHANGED <<loginPc, loginErr, modelPc, snapshot, applied>>
    /\ UNCHANGED <<stopped, published, pending, reading, received, joinedAt, deliveredAtJoin>>
    /\ UNCHANGED <<hmVars, hubVars, coreVars, cbVars, coVars>>

\* the body of a didLogin action runs and returns nil
LoopApplyDidLogin(i) ==
    /\ i \in 1..Len(inFlight)
    /\ inFlight[i].name = "didLogin"
    /\ didLogin(inFlight[i].failed)
    /\ applied' = Append(applied, [name |-> "didLogin", failed |-> FALSE])
    /\ inFlight' = RemoveAt(inFlight, i)
    /\ actorPc' = loopPcAfterBody(FALSE)
    /\ UNCHANGED <<loginPc, loginErr, modelPc, snapshot>>
    /\ UNCHANGED <<stopped, events, published, pending, reading, received, joinedAt, deliveredAtJoin>>
    /\ UNCHANGED <<hmVars, coreVars, cbVars, coVars>>

\* the body of another sender's action runs and returns its error or nil
LoopApplyOther(i) ==
    /\ i \in 1..Len(inFlight)
    /\ inFlight[i].name = "other"
    /\ applied' = Append(applied, [name |-> "other", failed |-> inFlight[i].failed])
    /\ inFlight' = RemoveAt(inFlight, i)
    /\ actorPc' = loopPcAfterBody(inFlight[i].failed)
    /\ UNCHANGED <<loginPc, loginErr, modelPc, snapshot>>
    /\ UNCHANGED <<stopped, events, published, pending, reading, received, joinedAt, deliveredAtJoin>>
    /\ UNCHANGED <<hmVars, hubVars, coreVars, cbVars, coVars>>

\* the body of a getModel action evaluates hub.apiModel() and is then at its
\* send on the reply channel
LoopComputeModel(i) ==
    /\ i \in 1..Len(inFlight)
    /\ inFlight[i].name = "getModel"
    /\ inFlight[i].reply = NoSnapshot
    /\ inFlight' = [inFlight EXCEPT ![i].reply = apiModel]
    /\ UNCHANGED <<loginPc, loginErr, modelPc, snapshot, applied>>
    /\ UNCHANGED <<hmVars, hubVars, pubVars, coreVars, cbVars, coVars>>

\* the caller of Model() receives from the reply channel; the body of the
\* getModel action returns nil
ModelReceive(i) ==
    /\ i \in 1..Len(inFlight)
    /\ inFlight[i].name = "getModel"
    /\ inFlight[i].reply # NoSnapshot
    /\ modelPc = "awaiting"
    /\ snapshot' = inFlight[i].reply
    /\ modelPc' = "idle"
    /\ applied' = Append(applied, [name |-> "getModel", failed |-> FALSE])
    /\ inFlight' = RemoveAt(inFlight, i)
    /\ actorPc' = loopPcAfterBody(FALSE)
    /\ UNCHANGED <<loginPc, loginErr>>
    /\ UNCHANGED <<stopped, events, published, pending, reading, received, joinedAt, deliveredAtJoin>>
    /\ UNCHANGED <<hmVars, hubVars, coreVars, cbVars, coVars>>

(***************************************************************************)
(* Circuit breaker of one hub                                              *)
(***************************************************************************)

\* the reopen delay after the first failure, in seconds
firstReopenDelay == 10

\* maxHubExponentialBackoffDuration, one hour in seconds
maxHubExponentialBackoffDuration == 3600

Min(a, b) == IF a < b THEN a ELSE b

NewCircuitBreaker ==
    /\ cbState = "closed"
    /\ cbDelay = 0
    /\ cbFailures = 0
    /\ cbCalls = 0
    /\ cbLast = "none"

\* the reopen delay after a failure, doubled with no cap
reopenDelayUncapped(state, delay) ==
    IF state = "closed" THEN firstReopenDelay ELSE 2 * delay

\* the reopen delay after a failure: 10 s on the first failure while closed,
\* twice the previous delay after a failed probe, at most one hour
reopenDelay(state, delay) ==
    IF state = "closed"
    THEN firstReopenDelay
    ELSE Min(2 * delay, maxHubExponentialBackoffDuration)

\* a call passes the breaker (closed, or the one probe of half-open) and fails
BreakerCallFails ==
    /\ cbCalls < MaxBreakerCalls
    /\ cbState \in {"closed", "halfOpen"}
    /\ cbState' = "open"
    /\ cbDelay' = reopenDelay(cbState, cbDelay)
    /\ cbFailures' = cbFailures + 1
    /\ cbCalls' = cbCalls + 1
    /\ cbLast' = "failure"
    /\ UNCHANGED <<hmVars, hubVars, pubVars, coreVars, loopVars, coVars>>

\* a call passes the breaker and succeeds: closed, delay reset
BreakerCallSucceeds ==
    /\ cbCalls < MaxBreakerCalls
    /\ cbState \in {"closed", "halfOpen"}
    /\ cbState' = "closed"
    /\ cbDelay' = 0
    /\ cbFailures' = 0
    /\ cbCalls' = cbCalls + 1
    /\ cbLast' = "success"
    /\ UNCHANGED <<hmVars, hubVars, pubVars, coreVars, loopVars, coVars>>

\* a call while open fails fast with the CircuitOpen error and never reaches
\* the hub
BreakerCallRejected ==
    /\ cbCalls < MaxBreakerCalls
    /\ cbState = "open"
    /\ cbCalls' = cbCalls + 1
    /\ cbLast' = "rejected"
    /\ UNCHANGED <<cbState, cbDelay, cbFailures>>
    /\ UNCHANGED <<hmVars, hubVars, pubVars, coreVars, loopVars, coVars>>

\* the reopen delay has passed: the breaker admits one probe
BreakerReopen ==
    /\ cbState = "open"
    /\ cbState' = "halfOpen"
    /\ cbLast' = "reopen"
    /\ UNCHANGED <<cbDelay, cbFailures, cbCalls>>
    /\ UNCHANGED <<hmVars, hubVars, pubVars, coreVars, loopVars, coVars>>

\* Hub.ResetCircuitBreaker: closed at once, delay cleared
ResetCircuitBreaker ==
    /\ cbState' = "closed"
    /\ cbDelay' = 0
    /\ cbFailures' = 0
    /\ cbLast' = "reset"
    /\ UNCHANGED cbCalls
    /\ UNCHANGED <<hmVars, hubVars, pubVars, coreVars, loopVars, coVars>>

(***************************************************************************)
(* Central model and reducer                                               *)
(***************************************************************************)

\* concurrentScanLimit of newPerceptorHelper, handed to NewModel
concurrentScanLimit == 2

Shas == {"a", "b", "c"}

\* the pods the responder reports, each with the images of its containers
PodImages == [p1 |-> {"a", "b"}, p2 |-> {"c"}]

PodNames == {"p1", "p2"}

\* completion status of the scan a hub fetch returned; "nil" is no scan
ScanStatuses == {"nil", "IN_PROGRESS", "COMPLETE"}

NewModel ==
    /\ imageInfos = [sha \in Shas |-> "absent"]
    /\ scanQueue = <<>>
    /\ pods = {}
    /\ continued = "none"
    /\ lastAction = "none"
    /\ completed = {}
    /\ overdue = {}

\* every transition of an ImageInfo stamps its entry time anew
timeInCurrentScanStatus ==
    overdue' = {sha \in overdue : imageInfos'[sha] = imageInfos[sha]}

\* the images of inProgressScanClientScans
inProgressScanClientScans == {sha \in Shas : imageInfos[sha] = "RUNNING_SCAN_CLIENT"}

\* the images of inProgressHubScans
inProgressHubScans == {sha \in Shas : imageInfos[sha] = "RUNNING_HUB_SCAN"}

RECURSIVE SetToSeq(_)
SetToSeq(S) ==
    IF S = {} THEN <<>>
    ELSE LET x == CHOOSE y \in S : TRUE IN <<x>> \o SetToSeq(S \ {x})

\* the images of a set that have no ImageInfo yet, in the order they are added
newImages(images) == SetToSeq({sha \in images : imageInfos[sha] = "absent"})

\* an ImageInfo is created UNSCANNED for each image not seen before and the
\* image joins the scan queue
addImages(images) ==
    /\ imageInfos' = [sha \in Shas |->
                         IF sha \in images /\ imageInfos[sha] = "absent"
                         THEN "UNSCANNED" ELSE imageInfos[sha]]
    /\ scanQueue' = scanQueue \o newImages(images)

AddImage(sha) ==
    /\ addImages({sha})
    /\ timeInCurrentScanStatus
    /\ lastAction' = "addImage"
    /\ UNCHANGED <<pods, continued, completed>>
    /\ UNCHANGED <<hmVars, hubVars, pubVars, loopVars, cbVars, coVars>>

AddPod(pod) ==
    /\ pods' = pods \cup {pod}
    /\ addImages(PodImages[pod])
    /\ timeInCurrentScanStatus
    /\ lastAction' = "addPod"
    /\ UNCHANGED <<continued, completed>>
    /\ UNCHANGED <<hmVars, hubVars, pubVars, loopVars, cbVars, coVars>>

\* the choice of GetNextImage with the limit left out
nextImageIgnoringLimit ==
    IF scanQueue = <<>> THEN "nil" ELSE Head(scanQueue)

\* the choice of GetNextImage: nil when concurrentScanLimit scan clients are
\* running or nothing is queued, otherwise the head of the queue
nextImage ==
    IF Cardinality(inProgressScanClientScans) >= concurrentScanLimit
    THEN "nil"
    ELSE IF scanQueue = <<>> THEN "nil" ELSE Head(scanQueue)

GetNextImage ==
    /\ continued' = nextImage
    /\ IF nextImage = "nil"
       THEN UNCHANGED <<imageInfos, scanQueue>>
       ELSE /\ imageInfos' = [imageInfos EXCEPT ![nextImage] = "RUNNING_SCAN_CLIENT"]
            /\ scanQueue' = Tail(scanQueue)
    /\ timeInCurrentScanStatus
    /\ lastAction' = "getNextImage"
    /\ UNCHANGED <<pods, completed>>
    /\ UNCHANGED <<hmVars, hubVars, pubVars, loopVars, cbVars, coVars>>

\* FinishScanClient that puts the image back in the queue on success too
ReducerFinishScanClientAlwaysRequeues(sha, failed) ==
    /\ IF imageInfos[sha] # "RUNNING_SCAN_CLIENT"
       THEN UNCHANGED <<imageInfos, scanQueue>>
       ELSE /\ imageInfos' = [imageInfos EXCEPT ![sha] =
                                IF failed THEN "UNSCANNED" ELSE "RUNNING_HUB_SCAN"]
            /\ scanQueue' = Append(scanQueue, sha)
    /\ timeInCurrentScanStatus
    /\ lastAction' = "finishScanClient"
    /\ UNCHANGED <<pods, continued, completed>>
    /\ UNCHANGED <<hmVars, hubVars, pubVars, loopVars, cbVars, coVars>>

ReducerFinishScanClient(sha, failed) ==
    /\ IF imageInfos[sha] # "RUNNING_SCAN_CLIENT"
       THEN UNCHANGED <<imageInfos, scanQueue>>
       ELSE IF failed
       THEN /\ imageInfos' = [imageInfos EXCEPT ![sha] = "UNSCANNED"]
            /\ scanQueue' = Append(scanQueue, sha)
       ELSE /\ imageInfos' = [imageInfos EXCEPT ![sha] = "RUNNING_HUB_SCAN"]
            /\ UNCHANGED scanQueue
    /\ timeInCurrentScanStatus
    /\ lastAction' = "finishScanClient"
    /\ UNCHANGED <<pods, continued, completed>>
    /\ UNCHANGED <<hmVars, hubVars, pubVars, loopVars, cbVars, coVars>>

RequeueStalledScan(sha) ==
    /\ IF imageInfos[sha] # "RUNNING_SCAN_CLIENT"
       THEN UNCHANGED <<imageInfos, scanQueue>>
       ELSE /\ imageInfos' = [imageInfos EXCEPT ![sha] = "UNSCANNED"]
            /\ scanQueue' = Append(scanQueue, sha)
    /\ timeInCurrentScanStatus
    /\ lastAction' = "requeueStalledScan"
    /\ UNCHANGED <<pods, continued, completed>>
    /\ UNCHANGED <<hmVars, hubVars, pubVars, loopVars, cbVars, coVars>>

\* HubCheckResults and HubScanResults: a complete scan completes an image
\* whose hub scan is running
hubResults(sha, scan) ==
    /\ imageInfos' = [imageInfos EXCEPT ![sha] =
                         IF @ = "RUNNING_HUB_SCAN" /\ scan = "COMPLETE"
                         THEN "COMPLETE" ELSE @]
    /\ completed' = {s \in Shas : s \in completed \/ imageInfos'[s] = "COMPLETE"}
    /\ UNCHANGED <<scanQueue, pods, continued>>

HubCheckResults(sha, scan) ==
    /\ hubResults(sha, scan)
    /\ timeInCurrentScanStatus
    /\ lastAction' = "hubCheckResults"
    /\ UNCHANGED <<hmVars, hubVars, pubVars, loopVars, cbVars, coVars>>

HubScanResults(sha, scan) ==
    /\ hubResults(sha, scan)
    /\ timeInCurrentScanStatus
    /\ lastAction' = "hubScanResults"
    /\ UNCHANGED <<hmVars, hubVars, pubVars, loopVars, cbVars, coVars>>

\* the explicit rescan of the ImageInfo state machine: a COMPLETE image goes
\* back to UNSCANNED and to the scan queue
Rescan(sha) ==
    /\ IF imageInfos[sha] # "COMPLETE"
       THEN UNCHANGED <<imageInfos, scanQueue>>
       ELSE /\ imageInfos' = [imageInfos EXCEPT ![sha] = "UNSCANNED"]
            /\ scanQueue' = Append(scanQueue, sha)
    /\ timeInCurrentScanStatus
    /\ lastAction' = "rescan"
    /\ UNCHANGED <<pods, continued, completed>>
    /\ UNCHANGED <<hmVars, hubVars, pubVars, loopVars, cbVars, coVars>>

(***************************************************************************)
(* Perceptor: the goroutines started by newPerceptorHelper                 *)
(***************************************************************************)

\* the images the responder posts in the coordinator specification
CoordShas == {"a", "b"}

\* what FetchScanFromImage returns: an error, no scan, or a scan
FetchOutcomes == {"err", "nil", "COMPLETE"}

NewIteration == [gets |-> 0, conts |-> 0, checks |-> <<>>]

newPerceptorHelper ==
    /\ hubScansField = <<>>
    /\ hubPollRequest = FALSE
    /\ wg = 0
    /\ assignPc = "send"
    /\ assignImage = "nil"
    /\ assignScan = "none"
    /\ iter = NewIteration
    /\ pollPc = "sleep"
    /\ pollTodo = <<>>
    /\ pollScan = "none"
    /\ passList = <<>>
    /\ pollSent = <<>>
    /\ pollErrs = {}

\* "close the circle": the goroutine that copies inProgressHubScans of the
\* reducer's latest model into the Perceptor field
CloseTheCircle ==
    /\ hubScansField' = SetToSeq(inProgressHubScans)
    /\ UNCHANGED <<hubPollRequest, wg, assignPc, assignImage, assignScan, iter,
                   pollPc, pollTodo, pollScan, passList, pollSent, pollErrs>>
    /\ UNCHANGED coreVars
    /\ UNCHANGED <<hmVars, hubVars, pubVars, loopVars, cbVars>>

\* the clock passes stalledScanTimeout for an image whose scan client runs
TimePasses(sha) ==
    /\ imageInfos[sha] = "RUNNING_SCAN_CLIENT"
    /\ sha \notin overdue
    /\ overdue' = overdue \cup {sha}
    /\ UNCHANGED <<imageInfos, scanQueue, pods, continued, lastAction, completed>>
    /\ UNCHANGED coVars
    /\ UNCHANGED <<hmVars, hubVars, pubVars, loopVars, cbVars>>

\* one visit of startCheckingForStalledScans, which newPerceptorHelper
\* never starts: an image overdue in RUNNING_SCAN_CLIENT is requeued
startCheckingForStalledScans(sha) ==
    /\ imageInfos[sha] = "RUNNING_SCAN_CLIENT"
    /\ sha \in overdue
    /\ RequeueStalledScan(sha)

\* image-assignment loop: wg.Add(1) and the send of getNextImageForHubPolling
AssignSendGetNext ==
    /\ assignPc = "send"
    /\ wg' = wg + 1
    /\ hubPollRequest' = TRUE
    /\ assignImage' = "nil"
    /\ assignPc' = "wait"
    /\ iter' = [iter EXCEPT !.gets = @ + 1]
    /\ UNCHANGED <<hubScansField, assignScan, pollPc, pollTodo, pollScan, passList,
                   pollSent, pollErrs>>
    /\ UNCHANGED coreVars
    /\ UNCHANGED <<hmVars, hubVars, pubVars, loopVars, cbVars>>

\* the reducer applies getNextImageForHubPolling: the continuation is called
\* once, with nil or with an image of the model, and does wg.Done()
GetNextImageForHubPolling(image) ==
    /\ hubPollRequest
    /\ image = "nil" \/ (image \in Shas /\ imageInfos[image] # "absent")
    /\ hubPollRequest' = FALSE
    /\ assignImage' = image
    /\ wg' = wg - 1
    /\ iter' = [iter EXCEPT !.conts = @ + 1]
    /\ lastAction' = "getNextImageForHubPolling"
    /\ UNCHANGED <<imageInfos, scanQueue, pods, continued, completed, overdue>>
    /\ UNCHANGED <<hubScansField, assignPc, assignScan, pollPc, pollTodo, pollScan,
                   passList, pollSent, pollErrs>>
    /\ UNCHANGED <<hmVars, hubVars, pubVars, loopVars, cbVars>>

\* wg.Wait() returns when the counter is zero
waitReturns(counter) == counter = 0

\* wg.Wait() has returned: on to the fetch, or to the long pause with nil
AssignWaitDone ==
    /\ assignPc = "wait"
    /\ waitReturns(wg)
    /\ assignPc' = IF assignImage # "nil" THEN "fetch" ELSE "sleep"
    /\ UNCHANGED <<hubScansField, hubPollRequest, wg, assignImage, assignScan, iter,
                   pollPc, pollTodo, pollScan, passList, pollSent, pollErrs>>
    /\ UNCHANGED coreVars
    /\ UNCHANGED <<hmVars, hubVars, pubVars, loopVars, cbVars>>

\* hubClient.FetchScanFromImage(*image)
AssignFetch(outcome) ==
    /\ assignPc = "fetch"
    /\ assignScan' = outcome
    /\ assignPc' = "fetched"
    /\ UNCHANGED <<hubScansField, hubPollRequest, wg, assignImage, iter,
                   pollPc, pollTodo, pollScan, passList, pollSent, pollErrs>>
    /\ UNCHANGED coreVars
    /\ UNCHANGED <<hmVars, hubVars, pubVars, loopVars, cbVars>>

\* results sent whatever the fetch returned
sendsResultsAlways(outcome) == TRUE

\* the else branch of `if err != nil`: results are sent, also for a nil scan
sendsResults(outcome) == outcome # "err"

\* the send of hubCheckResults, applied by the reducer, then the throttle
AssignSendResults ==
    /\ assignPc = "fetched"
    /\ sendsResults(assignScan)
    /\ hubResults(assignImage, assignScan)
    /\ timeInCurrentScanStatus
    /\ lastAction' = "hubCheckResults"
    /\ iter' = [iter EXCEPT !.checks = Append(@, assignImage)]
    /\ assignPc' = "sleep"
    /\ UNCHANGED <<hubScansField, hubPollRequest, wg, assignImage, assignScan,
                   pollPc, pollTodo, pollScan, passList, pollSent, pollErrs>>
    /\ UNCHANGED <<hmVars, hubVars, pubVars, loopVars, cbVars>>

\* the fetch failed: the error is logged, then the throttle
AssignSkipResults ==
    /\ assignPc = "fetched"
    /\ ~sendsResults(assignScan)
    /\ assignPc' = "sleep"
    /\ UNCHANGED <<hubScansField, hubPollRequest, wg, assignImage, assignScan, iter,
                   pollPc, pollTodo, pollScan, passList, pollSent, pollErrs>>
    /\ UNCHANGED coreVars
    /\ UNCHANGED <<hmVars, hubVars, pubVars, loopVars, cbVars>>

\* the sleep is over: the next iteration begins with a new WaitGroup
AssignSleep ==
    /\ assignPc = "sleep"
    /\ assignPc' = "send"
    /\ assignScan' = "none"
    /\ assignImage' = "nil"
    /\ iter' = NewIteration
    /\ UNCHANGED <<hubScansField, hubPollRequest, wg,
                   pollPc, pollTodo, pollScan, passList, pollSent, pollErrs>>
    /\ UNCHANGED coreVars
    /\ UNCHANGED <<hmVars, hubVars, pubVars, loopVars, cbVars>>

\* what the range clause can read from perceptor.inProgressHubScans while
\* "close the circle" writes it with no synchronisation: the slice, or the
\* new array under the old, shorter length
RangeOverField(n) == SubSeq(hubScansField, 1, n)

\* completion-polling loop: the pause is over and a pass begins, over the
\* first n images of the field
PollStart(n) ==
    /\ pollPc = "sleep"
    /\ n <= Len(hubScansField)
    /\ pollTodo' = RangeOverField(n)
    /\ passList' = RangeOverField(n)
    /\ pollSent' = <<>>
    /\ pollErrs' = {}
    /\ pollScan' = "none"
    /\ pollPc' = "loop"
    /\ UNCHANGED <<hubScansField, hubPollRequest, wg, assignPc, assignImage,
                   assignScan, iter>>
    /\ UNCHANGED coreVars
    /\ UNCHANGED <<hmVars, hubVars, pubVars, loopVars, cbVars>>

\* hubClient.FetchScanFromImage(image) for the next image of the pass
PollFetch(outcome) ==
    /\ pollPc = "loop"
    /\ pollTodo # <<>>
    /\ pollScan' = outcome
    /\ pollPc' = "fetched"
    /\ UNCHANGED <<hubScansField, hubPollRequest, wg, assignPc, assignImage,
                   assignScan, iter, pollTodo, passList, pollSent, pollErrs>>
    /\ UNCHANGED coreVars
    /\ UNCHANGED <<hmVars, hubVars, pubVars, loopVars, cbVars>>

\* a fetch error that ends the pass
afterFetchErrorStops(todo) == <<>>

\* after a fetch error is logged the pass goes on with the next image
afterFetchError(todo) == Tail(todo)

\* the send of hubScanResults, applied by the reducer, then the throttle
PollSendResults ==
    /\ pollPc = "fetched"
    /\ pollScan # "err"
    /\ hubResults(Head(pollTodo), pollScan)
    /\ timeInCurrentScanStatus
    /\ lastAction' = "hubScanResults"
    /\ pollSent' = Append(pollSent, Head(pollTodo))
    /\ pollTodo' = Tail(pollTodo)
    /\ pollPc' = "loop"
    /\ UNCHANGED <<hubScansField, hubPollRequest, wg, assignPc, assignImage,
                   assignScan, iter, pollScan, passList, pollErrs>>
    /\ UNCHANGED <<hmVars, hubVars, pubVars, loopVars, cbVars>>

\* the fetch failed: the error is logged, then the throttle
PollSkipResults ==
    /\ pollPc = "fetched"
    /\ pollScan = "err"
    /\ pollErrs' = pollErrs \cup {Head(pollTodo)}
    /\ pollTodo' = afterFetchError(pollTodo)
    /\ pollPc' = "loop"
    /\ UNCHANGED <<hubScansField, hubPollRequest, wg, assignPc, assignImage,
                   assignScan, iter, pollScan, passList, pollSent>>
    /\ UNCHANGED coreVars
    /\ UNCHANGED <<hmVars, hubVars, pubVars, loopVars, cbVars>>

\* the range is exhausted: back to the pause before the next pass
PollEndPass ==
    /\ pollPc = "loop"
    /\ pollTodo = <<>>
    /\ pollPc' = "sleep"
    /\ UNCHANGED <<hubScansField, hubPollRequest, wg, assignPc, assignImage,
                   assignScan, iter, pollTodo, pollScan, passList, pollSent, pollErrs>>
    /\ UNCHANGED coreVars
    /\ UNCHANGED <<hmVars, hubVars, pubVars, loopVars, cbVars>>

(***************************************************************************)
(* Specifications                                                          *)
(***************************************************************************)
Init ==
    /\ NewHubManager /\ NewHub /\ NewHubLoop /\ NewModel /\ NewHubActions
    /\ NewCircuitBreaker /\ newPerceptorHelper

NextHM ==
    \/ \E S \in HubLists : SetHubs(S)
    \/ \E u \in URLs : SetHubsRemove(u)
    \/ SetHubsReturn
    \/ \E k \in 1..MaxCalls, u \in URLs : createCheck(k, u)
    \/ \E k \in 1..MaxCalls : createStore(k)
    \/ ConcurrentMapAccess
    \/ \E u \in URLs, n \in ScanNames : StartScanClient(u, n)
    \/ \E u \in URLs, n \in ScanNames : FinishScanClient(u, n)

SpecHM == Init /\ [][NextHM]_vars

NextHub ==
    \/ LoginFailed
    \/ LoginSucceeded

SpecHub == Init /\ [][NextHub]_vars

NextPub ==
    \/ ActorPublish
    \/ ActorDidLogin(TRUE)
    \/ ActorDidLogin(FALSE)
    \/ ActorExit
    \/ Stop
    \/ \E s \in Subscribers : StartReading(s)
    \/ \E u \in 1..MaxUpdates, s \in Subscribers : Deliver(u, s)
    \/ \E u \in 1..MaxUpdates : PublishExit(u)

SpecPub == Init /\ [][NextPub]_vars

\* Every goroutine that can run is eventually run by the scheduler: a publish
\* goroutine whose stop case or send case is ready takes one of them.
FairSpecPub ==
    /\ SpecPub
    /\ \A u \in 1..MaxUpdates : WF_vars(PublishExit(u))
    /\ \A u \in 1..MaxUpdates : \A s \in Subscribers : WF_vars(Deliver(u, s))

NextLoop ==
    \/ LoginTimerFire(TRUE)
    \/ LoginTimerFire(FALSE)
    \/ LoginTimerExit
    \/ ModelCall
    \/ LoopReceiveDidLogin
    \/ LoopReceiveGetModel
    \/ LoopReceiveOther(TRUE)
    \/ LoopReceiveOther(FALSE)
    \/ \E i \in 1..MaxActions : LoopApplyDidLogin(i)
    \/ \E i \in 1..MaxActions : LoopApplyOther(i)
    \/ \E i \in 1..MaxActions : LoopComputeModel(i)
    \/ \E i \in 1..MaxActions : ModelReceive(i)
    \/ ActorExit
    \/ Stop

SpecLoop == Init /\ [][NextLoop]_vars

NextBreaker ==
    \/ BreakerCallFails
    \/ BreakerCallSucceeds
    \/ BreakerCallRejected
    \/ BreakerReopen
    \/ ResetCircuitBreaker

SpecBreaker == Init /\ [][NextBreaker]_vars

\* the steps of startCheckingForImagesInHub
AssignLoop ==
    \/ AssignSendGetNext
    \/ AssignWaitDone
    \/ \E outcome \in FetchOutcomes : AssignFetch(outcome)
    \/ AssignSendResults
    \/ AssignSkipResults
    \/ AssignSleep

\* the steps of startPollingHubForCompletedScans
PollLoop ==
    \/ \E n \in 0..Cardinality(Shas) : PollStart(n)
    \/ \E outcome \in FetchOutcomes : PollFetch(outcome)
    \/ PollSendResults
    \/ PollSkipResults
    \/ PollEndPass

\* the reducer applies the getNextImageForHubPolling action it has received
ReducerApply ==
    \E image \in Shas \cup {"nil"} : GetNextImageForHubPolling(image)

NextCoord ==
    \/ \E sha \in CoordShas : AddImage(sha)
    \/ GetNextImage
    \/ \E sha \in CoordShas : ReducerFinishScanClient(sha, TRUE)
    \/ \E sha \in CoordShas : ReducerFinishScanClient(sha, FALSE)
    \/ \E sha \in CoordShas : TimePasses(sha)
    \/ CloseTheCircle
    \/ ReducerApply
    \/ AssignLoop
    \/ PollLoop

SpecCoord == Init /\ [][NextCoord]_vars

\* each goroutine newPerceptorHelper starts keeps running, and the reducer
\* applies the action it has received
FairSpecCoord ==
    /\ SpecCoord
    /\ WF_vars(CloseTheCircle)
    /\ WF_vars(ReducerApply)
    /\ WF_vars(AssignLoop)
    /\ WF_vars(PollLoop)

NextCore ==
    \/ \E sha \in Shas : AddImage(sha)
    \/ \E pod \in PodNames : AddPod(pod)
    \/ GetNextImage
    \/ \E sha \in Shas : ReducerFinishScanClient(sha, TRUE)
    \/ \E sha \in Shas : ReducerFinishScanClient(sha, FALSE)
    \/ \E sha \in Shas : RequeueStalledScan(sha)
    \/ \E sha \in Shas : Rescan(sha)
    \/ \E sha \in Shas, scan \in ScanStatuses : HubCheckResults(sha, scan)
    \/ \E sha \in Shas, scan \in ScanStatuses : HubScanResults(sha, scan)

SpecCore == Init /\ [][NextCore]_vars

\* a creation goroutine is between its existence test and its store into
\* hm.hubs while the removal loop of a SetHubs call ranges over the map, or
\* while another creation goroutine is inside create
MapAccessOverlap ==
    \E k \in StoringCreators :
        \/ hmPc = "remove"
        \/ \E j \in ActiveCreators : j # k

\* C15: the hub map is never read or written by two goroutines at the same
\* time: no write of a creation goroutine overlaps the removal loop of the
\* same or a later SetHubs, nor another access of the map.
HubMapNeverShared ==
    ~MapAccessOverlap /\ ~crashed

\* a hub that create has constructed and no SetHubs has stopped is the entry
\* of the map under its URL
CreatedHubsStored ==
    \A inst \in created : stopCount[inst] = 0 => hubs[inst[1]] = inst[2]

\* no step replaces the entry of a URL by another hub
NoEntryOverwritten ==
    \A u \in URLs : (hubs[u] # NoHub /\ hubs'[u] # NoHub) => hubs'[u] = hubs[u]

\* C22: under any interleaving of SetHubs calls and their creation
\* goroutines every hub that create has constructed and that has not been
\* stopped is stored in the map under its URL: create never overwrites an
\* existing entry, so no running hub becomes unreachable.
CreateNeverOverwrites ==
    []CreatedHubsStored /\ [][NoEntryOverwritten]_vars

(***************************************************************************)
(* Properties of the central model                                         *)
(***************************************************************************)

\* the limit holds in every state
ScanClientLimitHolds ==
    Cardinality(inProgressScanClientScans) <= concurrentScanLimit

\* a GetNextImage applied at the limit calls its continuation with nil and
\* leaves every ImageInfo as it was
GetNextImageAtLimit ==
    (lastAction' = "getNextImage"
        /\ Cardinality(inProgressScanClientScans) >= concurrentScanLimit) =>
            (continued' = "nil" /\ imageInfos' = imageInfos /\ scanQueue' = scanQueue)

\* C1: under every sequence of reducer actions at most concurrentScanLimit
\* ImageInfos are in RUNNING_SCAN_CLIENT, and a GetNextImage applied at the
\* limit answers nil and changes no ImageInfo.
ScanClientLimit ==
    []ScanClientLimitHolds /\ [][GetNextImageAtLimit]_vars

\* two scan clients run, a third image waits in the queue, and the latest
\* GetNextImage was answered with nil
ScanClientLimitWitness ==
    /\ Cardinality(inProgressScanClientScans) = concurrentScanLimit
    /\ scanQueue # <<>>
    /\ lastAction = "getNextImage"
    /\ continued = "nil"

GetNextImageTakesUnscanned ==
    (lastAction' = "getNextImage" /\ scanQueue # <<>> /\ scanQueue' = Tail(scanQueue)) =>
        /\ continued' = Head(scanQueue)
        /\ imageInfos[Head(scanQueue)] = "UNSCANNED"
        /\ imageInfos'[Head(scanQueue)] = "RUNNING_SCAN_CLIENT"

ErrorsBounded ==
    /\ Len(errors) <= MaxErrors
    /\ \A i \in 1..Len(errLens) : errLens[i] <= MaxErrors

\* the list was cut from 1001 entries back to 501 by the latest recordError
ErrorsBoundedWitness ==
    /\ errSeq > MaxErrors
    /\ Len(errors) = MaxErrors - DroppedErrors + 1
    /\ errors[1] = DroppedErrors + 1

\* the length of the list after n non-nil errors: n up to 1000, then cut to
\* 501 by the 1001st and by every 500th after it
RetainedAfter(n) ==
    IF n <= 1000 THEN n ELSE 501 + ((n - 1001) % 500)

\* the list is the last Len(errors) of the errors 1..errSeq recorded so far
ErrorsAreSuffix ==
    /\ Len(errors) = RetainedAfter(errSeq)
    /\ \A i \in 1..Len(errors) : errors[i] = errSeq - Len(errors) + i

\* a nil error leaves the list alone; a non-nil error becomes the newest
\* entry; entries leave the list only from its old end, 500 at a time, when
\* the append made it longer than 1000
RecordErrorStep ==
    /\ errSeq' = errSeq => errors' = errors
    /\ errSeq' # errSeq =>
           /\ errors' # <<>>
           /\ errors'[Len(errors')] = errSeq'
           /\ \/ errors' = Append(errors, errSeq')
              \/ /\ Len(errors) = 1000
                 /\ errors' = SubSeq(Append(errors, errSeq'), 501, 1001)

\* C21: after any sequence of recordError calls the error list is a suffix,
\* in original order, of the non-nil errors recorded so far: nil is never
\* appended, a non-nil error is appended as the newest entry, and the oldest
\* 500 entries are dropped only when the length exceeds 1000.
ErrorListIsSuffix ==
    []ErrorsAreSuffix /\ [][RecordErrorStep]_vars

\* the list has been cut a second time, by the 1501st error
ErrorListIsSuffixWitness ==
    /\ errSeq = 1501
    /\ Len(errors) = 501
    /\ errors[1] = 1001
    /\ errors[501] = 1501

AllDataTimers(state) == \A i \in 1..Len(DataTimers) : timers[DataTimers[i]] = state

\* C6, the state part: Up exactly when the four data timers run, Down
\* exactly when the four are paused.
StatusMatchesTimers ==
    /\ status \in {"Up", "Down"}
    /\ status = "Up" <=> AllDataTimers("running")
    /\ status = "Down" <=> AllDataTimers("paused")

\* C6, the step part: a nil-error login while Down sets Up, a failed login
\* while Up sets Down.
LoginSwitchesStatus ==
    /\ (status = "Down" /\ lastLogin' = "nil") => status' = "Up"
    /\ (status = "Up" /\ lastLogin' = "err" /\ errSeq' # errSeq) => status' = "Down"

\* C6: a Hub starts Down with its four data timers paused; after any
\* sequence of didLogin actions it is Up exactly when the four data timers
\* run and Down exactly when they are paused; a successful login while Down
\* sets Up and resumes them, a failed login while Up sets Down and pauses them.
StatusFollowsLogin ==
    /\ (status = "Down" /\ AllDataTimers("paused"))
    /\ []StatusMatchesTimers
    /\ [][LoginSwitchesStatus]_vars

\* a login has failed, and after a later successful login the hub is Up
\* with its four data timers running
StatusFollowsLoginWitness ==
    /\ status = "Up"
    /\ AllDataTimers("running")
    /\ lastLogin = "nil"
    /\ errSeq >= 1

(***************************************************************************)
(* Properties of the HubManager                                            *)
(***************************************************************************)

\* every SetHubs call has returned and every creation goroutine has finished
HubManagerQuiet == hmPc = "idle" /\ ActiveCreators = {} /\ ~crashed

\* the hub client instances that were built and never stopped
LiveHubs == {i \in created : stopCount[i] = 0}

\* C2: after a sequence of SetHubs calls ending with SetHubs(S), once every
\* creation goroutine has finished, the keys of hm.hubs are exactly S.
SetHubsConverges ==
    (calls # <<>> /\ HubManagerQuiet) => HubKeys = newHubURLs

\* C3, first half: a step never stops or replaces the hub of a url that is
\* in the map and in the new list, and a removal stops the removed hub once.
SetHubsRetainsAndStopsOnce ==
    \A u \in URLs :
        /\ (hubs[u] # NoHub /\ u \in newHubURLs') =>
               /\ hubs'[u] = hubs[u]
               /\ stopCount'[<<u, hubs[u]>>] = stopCount[<<u, hubs[u]>>]
        /\ (hubs[u] # NoHub /\ hubs'[u] = NoHub) =>
               /\ u \notin newHubURLs
               /\ stopCount'[<<u, hubs[u]>>] = 1

\* C3, second half: after SetHubs([h1,h2]) then SetHubs([h2,h3]) exactly two
\* actors are live: h2 of the first call, h3 of the second; h1 is stopped.
SetHubsScenario ==
    (calls = <<{"h1", "h2"}, {"h2", "h3"}>> /\ HubManagerQuiet) =>
        /\ LiveHubs = {<<"h2", 1>>, <<"h3", 2>>}
        /\ hubs = [u \in URLs |-> CASE u = "h2" -> 1 [] u = "h3" -> 2 [] OTHER -> NoHub]
        /\ stopCount[<<"h1", 1>>] = 1

\* C3: SetHubs retains the hubs common to the map and the new list, stops
\* each removed hub exactly once, and the h1,h2 / h2,h3 scenario ends with
\* the two live actors h2 (original) and h3 (new).
SetHubsRetainsCommonHubs ==
    [][SetHubsRetainsAndStopsOnce]_vars /\ []SetHubsScenario

\* C4: StartScanClient and FinishScanClient answer an unknown url with the
\* not-found error and invoke no hub; for a known url they invoke exactly
\* the hub stored under it and return nil; they never change the map.
ScanClientRoutedByURL ==
    [][lastCall' # lastCall =>
          /\ lastCall'.op \in {"StartScanClient", "FinishScanClient"}
          /\ hubs[lastCall'.url] = NoHub =>
                 (lastCall'.ret = "notfound" /\ lastCall'.target = NoHub)
          /\ hubs[lastCall'.url] # NoHub =>
                 (lastCall'.ret = "nil" /\ lastCall'.target = hubs[lastCall'.url])
          /\ hubs' = hubs /\ created' = created /\ stopCount' = stopCount]_vars

\* a call was routed to one of two stored hubs, the other one being a hub
\* of a different SetHubs call
ScanClientRoutedWitness ==
    /\ lastCall.ret = "nil"
    /\ lastCall.target = hubs[lastCall.url]
    /\ \E u \in HubKeys : hubs[u] # lastCall.target

(***************************************************************************)
(* Properties of publish / Updates                                         *)
(***************************************************************************)

\* the updates a subscriber has received, as a set
ReceivedBy(s) == {received[s][i] : i \in 1..Len(received[s])}

\* C7: a reader receives the updates of a hub in the order of their publish
\* calls: it never receives u2 before u1 when publish(u1) came first.
UpdatesInPublishOrder ==
    \A s \in Subscribers : \A i, j \in 1..Len(received[s]) :
        i < j => received[s][i] < received[s][j]

\* C8 as stated: an update published while both subscribers read, once its
\* publish goroutine has handed it over, has been received by both of them.
BothSubscribersReceive ==
    \A u \in Delivered :
        (\A s \in Subscribers : reading[s] /\ joinedAt[s] < u) =>
            \A s \in Subscribers : u \in ReceivedBy(s)

\* each update is received at most once, by at most one subscriber
ReceivedAtMostOnce ==
    /\ \A s, t \in Subscribers : s # t => ReceivedBy(s) \cap ReceivedBy(t) = {}
    /\ \A s \in Subscribers : \A i, j \in 1..Len(received[s]) :
           i # j => received[s][i] # received[s][j]

\* C8 amended: with two subscribers reading, a published update is received
\* by exactly one of them, and by that one once; it is received eventually
\* unless the hub is stopped first.
OneSubscriberReceives ==
    /\ []ReceivedAtMostOnce
    /\ \A u \in 1..MaxUpdates :
           (u \in pending /\ \A s \in Subscribers : reading[s])
               ~> (stopped \/ \E s \in Subscribers : u \in ReceivedBy(s))

\* both subscribers were reading when update 1 was published; one has it
OneSubscriberReceivesWitness ==
    /\ \A s \in Subscribers : reading[s] /\ joinedAt[s] = 0
    /\ 1 \in Delivered
    /\ ~stopped

\* C9 as stated: a subscriber never receives an update that was published
\* before it began to read.
NoEarlierUpdateReceived ==
    \A s \in Subscribers : \A i \in 1..Len(received[s]) :
        received[s][i] > joinedAt[s]

\* C9 amended: a subscriber never receives an update that a reader had
\* already received before it began to read; an update published earlier
\* and still waiting in its publish goroutine can reach it.
NoDeliveredUpdateReplayed ==
    \A s \in Subscribers : \A i \in 1..Len(received[s]) :
        received[s][i] \notin deliveredAtJoin[s]

\* a subscriber began to read after one update had been received by the
\* other reader, and then received an update published before it began
NoDeliveredUpdateReplayedWitness ==
    \E s \in Subscribers :
        /\ deliveredAtJoin[s] # {}
        /\ \E i \in 1..Len(received[s]) : received[s][i] <= joinedAt[s]

\* C10: publish never blocks the action loop: with no subscriber reading the
\* loop is never held inside publish and can apply the next action, and each
\* pending publish goroutine ends once hub.stop is closed.
PublishNeverBlocksActor ==
    /\ [](actorPc # "publish")
    /\ []((actorPc # "exited" /\ Len(events) < MaxActions) => ENABLED ActorStep)
    /\ \A u \in 1..MaxUpdates : (stopped /\ u \in pending) ~> (u \notin pending)

\* nobody reads, an update waits in its publish goroutine, and the loop has
\* applied a didLogin action after the action that published
PublishNeverBlocksActorWitness ==
    /\ \A s \in Subscribers : ~reading[s]
    /\ pending # {}
    /\ \E i, j \in 1..Len(events) :
           i < j /\ events[i] = "publish" /\ events[j] = "didLogin"

\* C18, the step part: a failed login while Down records its error and
\* nothing else, a successful login while Up records nothing; neither
\* attempts a pause or a resume (errLens has one entry per recordError call
\* of the body), and the login and getMetrics timers are left alone.
LoginWithoutStatusChange ==
    /\ (status = "Down" /\ lastLogin' = "err" /\ errSeq' # errSeq) =>
           /\ status' = "Down"
           /\ timers' = timers
           /\ errors' = recordError(errors, errSeq')
           /\ Len(errLens') = 1
    /\ (status = "Up" /\ lastLogin' = "nil") =>
           /\ status' = "Up"
           /\ timers' = timers
           /\ errors' = errors
           /\ (errLens' # errLens => Len(errLens') = 1)
    /\ \A t \in RunningTimers : timers'[t] = timers[t]

\* C18: didLogin changes the status and the data timers only on a real
\* change of status: a failed login while Down and a successful login while
\* Up leave status and all six timers unchanged, with only a non-nil error
\* recorded and no pause or resume attempted; didLogin never pauses or
\* resumes the login timer or the getMetrics timer.
DidLoginFrame ==
    /\ [][LoginWithoutStatusChange]_vars
    /\ [](\A t \in RunningTimers : timers[t] = "running")

\* a second failed login in a row has been applied while the hub was Down,
\* after the hub had been Up
DidLoginFrameWitness ==
    /\ status = "Down"
    /\ lastLogin = "err"
    /\ Len(errLens) = 1
    /\ errSeq >= 3

(***************************************************************************)
(* Properties of the action loop                                           *)
(***************************************************************************)

\* a goroutine is at a send on hub.actions that nobody will ever receive
StuckOnActions == actorPc = "exited" /\ (loginPc = "sending" \/ modelPc = "sending")

\* C11: once Stop has closed hub.stop every long-lived goroutine of the hub
\* exits: the action loop returns and applies nothing afterwards, and no
\* timer task handing its result to didLogin and no caller of Model() is
\* left at its send on hub.actions after the loop has returned.
GoroutinesExitAfterStop ==
    /\ [](~StuckOnActions)
    /\ [][actorPc = "exited" => (events' = events /\ applied' = applied)]_vars

\* the names of the actions of a sequence of action records
ActionNames(seq) == [i \in 1..Len(seq) |-> seq[i].name]

\* C16: the hub applies its actions one at a time, in the order of their
\* receipt from hub.actions: at most one body runs, it returns before the
\* next action is received, and a body that returns an error leaves the
\* loop at its select.
ActionsAppliedOneByOne ==
    /\ [](Len(inFlight) <= 1)
    /\ [](ActionNames(applied) \o ActionNames(inFlight) = events)
    /\ [](inFlight # <<>> => actorPc = "apply")
    /\ [][(Len(applied') > Len(applied) /\ actorPc = "apply") => actorPc' = "select"]_vars

\* an action whose body returned an error was followed by another action
ActionsAppliedOneByOneWitness ==
    \E i, j \in 1..Len(applied) : i < j /\ applied[i].failed

\* C17: a Model() call gets exactly one snapshot, taken inside the getModel
\* action, which carries the status and the error list as left by the
\* actions applied before it; the loop applies nothing until the caller has
\* received the snapshot.
ModelRepliesWithSnapshot ==
    /\ [](modelPc = "awaiting" =>
             (Len(inFlight) = 1 /\ inFlight[1].name = "getModel" /\ actorPc = "apply"))
    /\ [][(modelPc = "awaiting" /\ modelPc' = "idle") =>
             /\ snapshot'.status = status
             /\ snapshot'.errors = errors
             /\ snapshot'.seen = Len(applied)
             /\ Len(applied') = Len(applied) + 1]_vars

(***************************************************************************)
(* Properties of the circuit breaker                                       *)
(***************************************************************************)

\* min(10 s * 2^(N-1), 1 h), in seconds
BackoffAfter(N) == Min(firstReopenDelay * 2^(N - 1), maxHubExponentialBackoffDuration)

\* after N >= 1 failed calls in a row the delay is BackoffAfter(N) and the
\* breaker is open, or half-open once that delay has passed; with no failure
\* since the latest success or Reset it is closed with zero delay
BackoffMatchesFailures ==
    /\ cbFailures >= 1 =>
           (cbState \in {"open", "halfOpen"} /\ cbDelay = BackoffAfter(cbFailures))
    /\ cbFailures = 0 => (cbState = "closed" /\ cbDelay = 0)
    /\ cbDelay <= maxHubExponentialBackoffDuration
    /\ cbLast = "failure" => cbState = "open"

\* a success in half-open and a Reset in any state close the breaker and
\* clear the delay
SuccessOrResetCloses ==
    ((cbLast' = "success" /\ cbCalls' # cbCalls /\ cbState = "halfOpen")
        \/ cbLast' = "reset") =>
            (cbState' = "closed" /\ cbDelay' = 0 /\ cbFailures' = 0)

\* C13: after N >= 1 consecutive failed calls with no success and no Reset
\* between them the breaker is open with reopen delay min(10 s * 2^(N-1), 1 h);
\* a success in half-open or a Reset at any point returns it to closed with
\* zero delay.
ExponentialBackoff ==
    []BackoffMatchesFailures /\ [][SuccessOrResetCloses]_vars

\* ten calls in a row have failed and the delay has reached its cap of one
\* hour
ExponentialBackoffWitness ==
    /\ cbFailures >= 10
    /\ cbState = "open"
    /\ cbDelay = maxHubExponentialBackoffDuration
    /\ cbLast = "failure"

(***************************************************************************)
(* Properties of the Perceptor goroutines                                  *)
(***************************************************************************)

\* C12: in a running Perceptor every ImageInfo that stays in
\* RUNNING_SCAN_CLIENT for more than stalledScanTimeout is requeued: a
\* RequeueStalledScan action for it reaches the reducer and the image
\* returns to UNSCANNED.
StalledScanRequeued ==
    \A sha \in CoordShas :
        (imageInfos[sha] = "RUNNING_SCAN_CLIENT" /\ sha \in overdue)
            ~> (imageInfos[sha] # "RUNNING_SCAN_CLIENT")

\* the iteration of the image-assignment loop is past wg.Wait()
PastWait == assignPc \in {"fetch", "fetched", "sleep"}

\* C19: each iteration of the image-assignment loop sends exactly one
\* getNextImageForHubPolling action and does not proceed until its
\* continuation has been called exactly once; it then sends at most one
\* hubCheckResults action, with the sha of the returned image, and only when
\* the image is non-nil and the fetch returned no error; with a nil image or
\* a fetch error no action is sent in that iteration.
AssignmentIteration ==
    /\ iter.gets = (IF assignPc = "send" THEN 0 ELSE 1)
    /\ iter.conts <= 1
    /\ PastWait => (iter.conts = 1 /\ wg = 0 /\ ~hubPollRequest)
    /\ Len(iter.checks) <= 1
    /\ iter.checks # <<>> =>
           /\ PastWait
           /\ assignImage # "nil"
           /\ assignScan \in FetchOutcomes \ {"err"}
           /\ iter.checks = <<assignImage>>
    /\ (assignPc = "sleep" /\ assignImage # "nil" /\ assignScan # "err") =>
           Len(iter.checks) = 1

\* an iteration has sent hubCheckResults for the image its continuation
\* captured, the fetch having found no scan
AssignmentIterationWitness ==
    /\ assignPc = "sleep"
    /\ iter = [gets |-> 1, conts |-> 1, checks |-> <<"a">>]
    /\ assignImage = "a"
    /\ assignScan = "nil"
    /\ lastAction = "hubCheckResults"

\* the images of the running pass already visited
Visited == SubSeq(passList, 1, Len(passList) - Len(pollTodo))

\* the images of a sequence that are not in a set, in the order of the sequence
RECURSIVE Without(_, _)
Without(seq, S) ==
    IF seq = <<>> THEN <<>>
    ELSE IF Head(seq) \in S THEN Without(Tail(seq), S)
    ELSE <<Head(seq)>> \o Without(Tail(seq), S)

\* the pass so far: an action for every visited image but those whose fetch
\* failed, one each, in the order of the pass
PassSoFar ==
    /\ pollTodo = SubSeq(passList, Len(passList) - Len(pollTodo) + 1, Len(passList))
    /\ pollErrs \subseteq {Visited[i] : i \in 1..Len(Visited)}
    /\ pollSent = Without(Visited, pollErrs)

\* a fetch error leaves the loop inside the pass, at the next image
ErrorKeepsPass ==
    (pollPc = "fetched" /\ pollScan = "err" /\ pollPc' # pollPc) =>
        /\ pollPc' = "loop"
        /\ pollTodo' = Tail(pollTodo)
        /\ pollSent' = pollSent
        /\ lastAction' = lastAction

\* C20: in one pass of the completion-polling loop a fetch error for one
\* image sends no hubScanResults action for it and does not stop the pass:
\* every other image of the pass whose fetch succeeds gets exactly one
\* hubScanResults action with its own sha, also when the scan is nil, and
\* the loop goes on to the next pass.
PollingPass ==
    /\ []PassSoFar
    /\ [][ErrorKeepsPass]_vars
    /\ [](pollPc = "sleep" => (pollTodo = <<>> /\ ENABLED PollLoop))

\* a pass over two images is over: the fetch of the first failed, the second
\* got its hubScanResults action with a nil scan
PollingPassWitness ==
    /\ pollPc = "sleep"
    /\ Len(passList) = 2
    /\ pollErrs = {passList[1]}
    /\ pollSent = <<passList[2]>>
    /\ pollScan = "nil"

====
